---- MODULE Spec2Model ----
(***************************************************************************)
(* Model of the mind-map client: the zustand graph store                   *)
(* (apps/client/src/hooks/useMindMapStore.ts), its localStorage            *)
(* persistence, and the asynchronous handlers of the editor                *)
(* (apps/client/src/components/editor/MindMap.tsx and its earlier draft).  *)
(*                                                                         *)
(* A store operation is a pure operator on a record of the store's fields  *)
(* (the object zustand's set() merges into) and localStorage; an action    *)
(* applies one operator to the current state.  The store's `version`       *)
(* counter is left out: it only grows and is read by nothing but the       *)
(* dashboard's list-refresh effect.                                        *)
(***************************************************************************)
EXTENDS Integers, Sequences, FiniteSets, TLC

VARIABLES
  nodes,          \* MindMapState.nodes
  edges,          \* MindMapState.edges
  loading,        \* MindMapState.loading
  error,          \* MindMapState.error
  selectedMapId,  \* MindMapState.selectedMapId
  storage,        \* localStorage: key -> item text, or NoItem when absent
  now,            \* the clock read by Date.now()
  listed,         \* the array returned by the most recent listMaps()
  lastCall,       \* the most recent call: its name, arguments, whether it threw,
                  \* and what it started from
  roundTrip,      \* progress of a saveMap(x); reset(); loadMap(x) sequence
  build,          \* which editor is built in: the final MindMap.tsx or its draft
  route,          \* the page react-router shows
  requests,       \* fetch() calls whose response has not been handled yet
  suggestLoading, \* MindMap state (final): suggestLoading
  suggestError,   \* MindMap state (final): suggestError
  suggestedNodes, \* MindMap state (final): the staged suggestions
  expandLoading,  \* MindMap state (draft): expandLoading
  expandError,    \* MindMap state (draft): expandError
  insight,        \* MindMap state (final): insight
  insightLoading, \* MindMap state (final): insightLoading
  insightError,   \* MindMap state (final): insightError
  clusters,       \* MindMap state (final): clusters
  clusterLoading, \* MindMap state (final): clusterLoading
  clusterError,   \* MindMap state (final): clusterError
  addEdgeSource,  \* MindMap state (final): addEdgeSource
  edgeMenu,       \* MindMap state (final): edgeMenu
  menuNode,       \* MindMap state (final): menuNode
  menuPos,        \* MindMap state (final): menuPos
  listeners,      \* how many mousedown listeners the outside-click effect has on document
  timers,         \* pending timeouts of the debounce closures
  uuids           \* how many values crypto.randomUUID() has returned

storeVars == <<nodes, edges, loading, error, selectedMapId, storage>>

editorVars == <<suggestLoading, suggestError, suggestedNodes, expandLoading, expandError>>

analysisVars ==
  <<insight, insightLoading, insightError, clusters, clusterLoading, clusterError>>

edgeVars == <<addEdgeSource, edgeMenu>>

menuVars == <<menuNode, menuPos, listeners>>

uiVars ==
  <<build, route, requests, editorVars, analysisVars, edgeVars, menuVars, timers, uuids>>

vars == <<storeVars, now, listed, lastCall, roundTrip, uiVars>>

\* ---------------------------------------------------------------- bounds
MaxNodes == 3
MaxEdges == 2
MaxTime == 2
MaxInFlight == 2
MaxUuids == 2
MaxTimers == 2

\* ---------------------------------------------------------------- values
Null == "null"

NodeIds == {"n1", "n2", "n3"}

\* MindMapNode; aiSuggested = FALSE stands for the property being absent.
MindMapNode(id, label, ai) == [id |-> id, label |-> label, aiSuggested |-> ai]

\* MindMapEdge; id = 0 stands for the optional id being absent.
MindMapEdge(id, source, target) == [id |-> id, source |-> source, target |-> target]

\* ---------------------------------------------------------------- helpers
\* Array.prototype.filter is SelectSeq; Array.prototype.map is written as
\* the sequence [i \in 1..Len(seq) |-> ...].
Range(seq) == {seq[i] : i \in 1..Len(seq)}

NodeIdSet(ns) == {ns[i].id : i \in 1..Len(ns)}

\* ---------------------------------------------------------------- store
\* The record the store operators work on.
Cur ==
  [nodes |-> nodes, edges |-> edges, loading |-> loading, error |-> error,
   selectedMapId |-> selectedMapId, storage |-> storage, threw |-> FALSE]

setNodes(s, ns) == [s EXCEPT !.nodes = ns]

setEdges(s, es) == [s EXCEPT !.edges = es]

setLoading(s, l) == [s EXCEPT !.loading = l]

setError(s, e) == [s EXCEPT !.error = e]

reset(s) == [s EXCEPT !.nodes = <<>>, !.edges = <<>>, !.loading = FALSE, !.error = Null]

addNodes(s, newNodes) == [s EXCEPT !.nodes = s.nodes \o newNodes]

addEdges(s, newEdges) == [s EXCEPT !.edges = s.edges \o newEdges]

renameNode_dropsOtherFields(s, id, label) ==
  [s EXCEPT !.nodes = [i \in 1..Len(s.nodes) |->
     IF s.nodes[i].id = id THEN MindMapNode(id, label, FALSE) ELSE s.nodes[i]]]

renameNode(s, id, label) ==
  [s EXCEPT !.nodes = [i \in 1..Len(s.nodes) |->
      IF s.nodes[i].id = id THEN [s.nodes[i] EXCEPT !.label = label] ELSE s.nodes[i]]]

deleteNode_edgesOfSourceOnly(s, id) ==
  [s EXCEPT !.nodes = SelectSeq(s.nodes, LAMBDA n : n.id # id),
            !.edges = SelectSeq(s.edges, LAMBDA e : e.source # id)]

deleteNode(s, id) ==
  [s EXCEPT !.nodes = SelectSeq(s.nodes, LAMBDA n : n.id # id),
            !.edges = SelectSeq(s.edges, LAMBDA e : e.source # id /\ e.target # id)]

\* ---------------------------------------------------------------- localStorage
\* Map names.  "" is what the dashboard's rename box yields when it is emptied;
\* "u" is the key of an item that an earlier session left behind.
SaveNames == {"a", "b"}
Names == {"a", "b", "", "u"}

\* `mindmaps:${name}`
MapKey(name) == [prefix |-> "mindmaps:", name |-> name]

\* a key of the same origin that is not a map
OtherKey == [prefix |-> "", name |-> "theme"]

Keys == {MapKey(n) : n \in Names} \cup {OtherKey}

\* key.startsWith('mindmaps:')
startsWithMindmaps(key) == key.prefix = "mindmaps:"

\* localStorage.getItem(key) === null
NoItem == [kind |-> "absent"]

\* An item that is not JSON text.
InvalidText == [kind |-> "invalid"]

\* The JSON text `null`.
NullText == [kind |-> "null"]

AllMembers == {"name", "createdAt", "nodes", "edges"}

\* JSON text of a node / an edge: a member is written only when the property is defined.
NodeText(n) ==
  [id |-> n.id, label |-> n.label,
   members |-> {"id", "label"} \cup (IF n.aiSuggested THEN {"aiSuggested"} ELSE {})]

EdgeText(e) ==
  [source |-> e.source, target |-> e.target, id |-> e.id,
   members |-> {"source", "target"} \cup (IF e.id # 0 THEN {"id"} ELSE {})]

ParseNode(t) == MindMapNode(t.id, t.label, "aiSuggested" \in t.members)

ParseEdge(t) == MindMapEdge(IF "id" \in t.members THEN t.id ELSE 0, t.source, t.target)

\* The SavedMap object literal of saveMap.
SavedMap(name, createdAt, ns, es) ==
  [kind |-> "object", defined |-> AllMembers,
   name |-> name, createdAt |-> createdAt, nodes |-> ns, edges |-> es]

\* JSON.stringify of a map object: undefined properties are not written.
JSONstringify(map) ==
  [kind |-> "object", members |-> map.defined,
   name |-> map.name, createdAt |-> map.createdAt,
   nodes |-> [i \in 1..Len(map.nodes) |-> NodeText(map.nodes[i])], edges |-> [i \in 1..Len(map.edges) |-> EdgeText(map.edges[i])]]

\* JSON.parse: throws SyntaxError on text that is not JSON.
JSONparse(text) ==
  IF text.kind = "invalid" THEN [threw |-> TRUE, value |-> [kind |-> "null"]]
  ELSE IF text.kind = "null" THEN [threw |-> FALSE, value |-> [kind |-> "null"]]
  ELSE [threw |-> FALSE,
        value |-> [kind |-> "object", defined |-> text.members,
                   name |-> text.name, createdAt |-> text.createdAt,
                   nodes |-> [i \in 1..Len(text.nodes) |-> ParseNode(text.nodes[i])],
                   edges |-> [i \in 1..Len(text.edges) |-> ParseEdge(text.edges[i])]]]

\* An item written by the earlier version of the store (created / modified
\* instead of createdAt).
LegacyText ==
  [kind |-> "object", members |-> {"name", "nodes", "edges"},
   name |-> "old", createdAt |-> 0,
   nodes |-> <<NodeText(MindMapNode("n3", "A", FALSE))>>, edges |-> <<>>]

\* isNaN on a value whose typeof is 'number'
isNaN(x) == x \notin Int

\* The schema test of getAllMaps.
getAllMaps_accepts(map) ==
  /\ map.kind # "null"
  /\ "name" \in map.defined /\ map.name # ""
  /\ "nodes" \in map.defined
  /\ "edges" \in map.defined
  /\ "createdAt" \in map.defined
  /\ ~isNaN(map.createdAt)

\* Array.prototype.sort((a, b) => b.createdAt - a.createdAt): stable.
RECURSIVE sortInsert(_, _)
sortInsert(sorted, m) ==
  IF sorted = <<>> THEN <<m>>
  ELSE IF Head(sorted).createdAt >= m.createdAt
       THEN <<Head(sorted)>> \o sortInsert(Tail(sorted), m)
       ELSE <<m>> \o sorted

RECURSIVE sortByCreatedAtDesc(_)
sortByCreatedAtDesc(maps) ==
  IF maps = <<>> THEN <<>>
  ELSE sortInsert(sortByCreatedAtDesc(SubSeq(maps, 1, Len(maps) - 1)), maps[Len(maps)])

\* The scan loop of getAllMaps over the keys in localStorage.key(i) order.
RECURSIVE getAllMaps_scan(_, _)
getAllMaps_scan(store, order) ==
  IF order = <<>> THEN <<>>
  ELSE LET key == Head(order)
           rest == getAllMaps_scan(store, Tail(order))
           p == JSONparse(store[key])
       IN IF startsWithMindmaps(key) /\ ~p.threw /\ getAllMaps_accepts(p.value)
          THEN <<p.value>> \o rest
          ELSE rest

getAllMaps(store, order) == sortByCreatedAtDesc(getAllMaps_scan(store, order))

\* The keys present, in each order localStorage.key(i) may enumerate them.
PresentKeys(store) == {k \in Keys : store[k] # NoItem}

RECURSIVE Orders(_)
Orders(keys) ==
  IF keys = {} THEN {<<>>}
  ELSE UNION {{<<k>> \o o : o \in Orders(keys \ {k})} : k \in keys}

KeyOrders(store) == Orders(PresentKeys(store))

saveMap(s, name, t) ==
  [s EXCEPT !.storage[MapKey(name)] = JSONstringify(SavedMap(name, t, s.nodes, s.edges)),
            !.selectedMapId = name]

loadMap_nodesOnly(s, name) ==
  LET raw == s.storage[MapKey(name)]
      p == JSONparse(raw)
  IN IF raw = NoItem THEN s
     ELSE IF p.threw \/ p.value.kind = "null" THEN [s EXCEPT !.threw = TRUE]
     ELSE [s EXCEPT !.nodes = p.value.nodes, !.selectedMapId = name]

loadMap(s, name) ==
  LET raw == s.storage[MapKey(name)]
      p == JSONparse(raw)
  IN IF raw = NoItem THEN s
     ELSE IF p.threw \/ p.value.kind = "null" THEN [s EXCEPT !.threw = TRUE]
     ELSE [s EXCEPT !.nodes = p.value.nodes, !.edges = p.value.edges, !.selectedMapId = name]

deleteMap_alwaysResets(s, name) ==
  [s EXCEPT !.storage[MapKey(name)] = NoItem,
            !.selectedMapId = Null, !.nodes = <<>>, !.edges = <<>>]

deleteMap(s, name) ==
  LET removed == [s EXCEPT !.storage[MapKey(name)] = NoItem]
  IN IF s.selectedMapId = name
     THEN [removed EXCEPT !.selectedMapId = Null, !.nodes = <<>>, !.edges = <<>>]
     ELSE removed

renameMap_keepsExisting(s, oldName, newName) ==
  LET raw == s.storage[MapKey(oldName)]
      p == JSONparse(raw)
      map == [p.value EXCEPT !.name = newName, !.defined = @ \cup {"name"}]
      written == IF s.storage[MapKey(newName)] = NoItem
                 THEN [s.storage EXCEPT ![MapKey(newName)] = JSONstringify(map)]
                 ELSE s.storage
      moved == [written EXCEPT ![MapKey(oldName)] = NoItem]
  IN IF raw = NoItem THEN s
     ELSE IF p.threw \/ p.value.kind = "null" THEN [s EXCEPT !.threw = TRUE]
     ELSE [s EXCEPT !.storage = moved,
                    !.selectedMapId = IF s.selectedMapId = oldName THEN newName ELSE @]

renameMap_keepsOld(s, oldName, newName) ==
  LET raw == s.storage[MapKey(oldName)]
      p == JSONparse(raw)
      map == [p.value EXCEPT !.name = newName, !.defined = @ \cup {"name"}]
      written == [s.storage EXCEPT ![MapKey(newName)] = JSONstringify(map)]
  IN IF raw = NoItem THEN s
     ELSE IF p.threw \/ p.value.kind = "null" THEN [s EXCEPT !.threw = TRUE]
     ELSE [s EXCEPT !.storage = written,
                    !.selectedMapId = IF s.selectedMapId = oldName THEN newName ELSE @]

renameMap(s, oldName, newName) ==
  LET raw == s.storage[MapKey(oldName)]
      p == JSONparse(raw)
      map == [p.value EXCEPT !.name = newName, !.defined = @ \cup {"name"}]
      written == [s.storage EXCEPT ![MapKey(newName)] = JSONstringify(map)]
      moved == [written EXCEPT ![MapKey(oldName)] = NoItem]
  IN IF raw = NoItem THEN s
     ELSE IF p.threw \/ p.value.kind = "null" THEN [s EXCEPT !.threw = TRUE]
     ELSE [s EXCEPT !.storage = moved,
                    !.selectedMapId = IF s.selectedMapId = oldName THEN newName ELSE @]

setSelectedMapId(s, id) == [s EXCEPT !.selectedMapId = id]

cleanupInvalidMaps_deletes_emptyMaps(text) ==
  LET p == JSONparse(text)
  IN \/ p.threw
     \/ p.value.kind = "null"
     \/ "createdAt" \notin p.value.defined
     \/ isNaN(p.value.createdAt)
     \/ p.value.nodes = <<>>

\* The test of cleanupInvalidMaps on one item.
cleanupInvalidMaps_deletes(text) ==
  LET p == JSONparse(text)
  IN \/ p.threw
     \/ p.value.kind = "null"
     \/ "createdAt" \notin p.value.defined
     \/ isNaN(p.value.createdAt)

RECURSIVE cleanupInvalidMaps_scan(_, _)
cleanupInvalidMaps_scan(store, order) ==
  IF order = <<>> THEN {}
  ELSE LET key == Head(order)
           rest == cleanupInvalidMaps_scan(store, Tail(order))
       IN IF startsWithMindmaps(key) /\ cleanupInvalidMaps_deletes(store[key])
          THEN {key} \cup rest
          ELSE rest

cleanupInvalidMaps(s, order) ==
  LET keysToDelete == cleanupInvalidMaps_scan(s.storage, order)
  IN [s EXCEPT !.storage = [k \in Keys |-> IF k \in keysToDelete THEN NoItem ELSE s.storage[k]]]

\* ---------------------------------------------------------------- actions
\* The graph and the loaded-map marker a call started from.
Before == [nodes |-> nodes, edges |-> edges, selectedMapId |-> selectedMapId]

NoGraph == [nodes |-> <<>>, edges |-> <<>>, selectedMapId |-> Null]

\* What is remembered of the state a store call started from: nothing for the
\* calls that edit the graph element by element.
beforeOf(op) ==
  IF op \in {"addNodes", "addEdges", "deleteNode", "renameNode"} THEN NoGraph ELSE Before

\* The item that was stored under the key a call writes or removes.
replacedBy(op, args) ==
  IF op \in {"saveMap", "deleteMap"} THEN storage[MapKey(args[1])]
  ELSE IF op = "renameMap" THEN storage[MapKey(args[2])]
  ELSE NoItem

NoCall ==
  [op |-> "none", args |-> <<>>, threw |-> FALSE, stale |-> FALSE,
   before |-> NoGraph, replaced |-> NoItem]

NoRoundTrip == [phase |-> "none", name |-> ""]

\* saveMap(x), then reset(), then loadMap(x), with no other call in between.
roundTripAfter(op, args) ==
  IF op = "saveMap" THEN [phase |-> "saved", name |-> args[1]]
  ELSE IF op = "reset" /\ roundTrip.phase = "saved" THEN [roundTrip EXCEPT !.phase = "cleared"]
  ELSE IF op = "loadMap" /\ roundTrip.phase = "cleared" /\ args = <<roundTrip.name>>
       THEN [roundTrip EXCEPT !.phase = "loaded"]
  ELSE NoRoundTrip

\* The store becomes the record s.
Becomes(s) ==
  /\ nodes' = s.nodes
  /\ edges' = s.edges
  /\ loading' = s.loading
  /\ error' = s.error
  /\ selectedMapId' = s.selectedMapId
  /\ storage' = s.storage

\* ------------------------------------------------- effects of the final editor
\* if (!menuNode) return;
truthy(x) == x # Null /\ x # ""

listenersAfter_keepsOld(ls, before, after) ==
  IF before = after THEN ls ELSE ls + (IF truthy(after) THEN 1 ELSE 0)

\* The outside-click effect across a render in which menuNode goes from
\* before to after: with menuNode unchanged nothing runs; otherwise the cleanup
\* of the previous run removes the listener that run added, and the new run
\* adds one unless menuNode is empty.
listenersAfter(ls, before, after) ==
  IF before = after
  THEN ls
  ELSE (ls - (IF truthy(before) THEN 1 ELSE 0)) + (IF truthy(after) THEN 1 ELSE 0)

\* The cleanup of the outside-click effect when the editor is unmounted.
unmounted(ls, before) == ls - (IF truthy(before) THEN 1 ELSE 0)

\* The document listener: a mousedown inside #node-menu-popup is ignored, any
\* other one clears menuNode and menuPos.
handleClick(menu, inside) == IF inside THEN menu ELSE [node |-> Null, pos |-> Null]

\* setMenuNode / setMenuPos followed by the render and its effects.
MenuBecomes(node, pos) ==
  /\ menuNode' = node
  /\ menuPos' = pos
  /\ listeners' = listenersAfter(listeners, menuNode, node)

\* No debounce closure has a timeout pending.
NoTimers == [current |-> FALSE, orphans |-> 0]

\* debounce: clearTimeout(timeout); timeout = setTimeout(...), on the closure
\* that is registered with the surface.
debounce(ts) == [ts EXCEPT !.current = TRUE]

\* The cleanup of the overlay effect removes debouncedUpdate's listeners and
\* leaves its timeout alone; the next run makes a new closure.
cleanup(ts) == [current |-> FALSE, orphans |-> ts.orphans + (IF ts.current THEN 1 ELSE 0)]

\* The calls of updatePositions() the two effects on [nodes, edges] make
\* when they run with the surface in place: one each.
updatePositions_sync(hasCy) == IF hasCy THEN <<"effect 1", "effect 2">> ELSE <<>>

\* The store becomes the record s and the editor, if mounted, renders it:
\* the effects on [nodes, edges] run again when either has changed.
Renders(s) ==
  /\ Becomes(s)
  /\ timers' = IF s.nodes # nodes \/ s.edges # edges THEN cleanup(timers) ELSE timers

\* One call of a store operation: the state becomes the operator's result.
Call(op, args, s) ==
  /\ Becomes(s)
  /\ lastCall' = [op |-> op, args |-> args, threw |-> s.threw, stale |-> FALSE,
                   before |-> beforeOf(op), replaced |-> replacedBy(op, args)]
  /\ roundTrip' = roundTripAfter(op, args)
  /\ listed' = <<>>
  /\ UNCHANGED <<now, uiVars>>

\* Arguments of addNodes / addEdges: one or two elements.
NodeArgs == {MindMapNode(id, "A", FALSE) : id \in NodeIds}
EdgeArgs == {MindMapEdge(0, a, b) : a \in NodeIds, b \in NodeIds}
NodeLists == {<<x>> : x \in NodeArgs} \cup {<<x, y>> : x \in NodeArgs, y \in NodeArgs}
EdgeLists == {<<x>> : x \in EdgeArgs} \cup {<<x, y>> : x \in EdgeArgs, y \in EdgeArgs}

\* Arguments of setNodes / setEdges: a generated graph with an AI-suggested
\* node, an edge that carries an id and one that does not.
SampleNodes == <<MindMapNode("n1", "A", FALSE), MindMapNode("n2", "B", TRUE)>>
SampleEdges == <<MindMapEdge(1, "n1", "n2"), MindMapEdge(0, "n2", "n1")>>

CallAddNodes ==
  \E newNodes \in NodeLists :
    /\ Len(nodes) + Len(newNodes) <= MaxNodes
    /\ Call("addNodes", <<>>, addNodes(Cur, newNodes))

CallAddEdges ==
  \E newEdges \in EdgeLists :
    /\ Len(edges) + Len(newEdges) <= MaxEdges
    /\ Call("addEdges", <<>>, addEdges(Cur, newEdges))

CallDeleteNode ==
  \E id \in NodeIds : Call("deleteNode", <<id>>, deleteNode(Cur, id))

\* Labels typed into the node menu's rename box.
NewLabels == {"C", ""}

CallRenameNode ==
  \E id \in NodeIds, label \in NewLabels :
    Call("renameNode", <<id, label>>, renameNode(Cur, id, label))

CallSetNodes == Call("setNodes", <<>>, setNodes(Cur, SampleNodes))

CallSetEdges == Call("setEdges", <<>>, setEdges(Cur, SampleEdges))

CallReset_clearsSavedMaps ==
  Call("reset", <<>>, [reset(Cur) EXCEPT !.storage =
         [k \in Keys |-> IF startsWithMindmaps(k) /\ storage[k].kind = "object"
                         THEN JSONstringify(SavedMap(storage[k].name, storage[k].createdAt, <<>>, <<>>))
                         ELSE storage[k]]])

CallReset == Call("reset", <<>>, reset(Cur))

CallSaveMap ==
  \E name \in SaveNames : Call("saveMap", <<name>>, saveMap(Cur, name, now))

CallLoadMap ==
  \E name \in Names : Call("loadMap", <<name>>, loadMap(Cur, name))

CallDeleteMap ==
  \E name \in Names : Call("deleteMap", <<name>>, deleteMap(Cur, name))

CallRenameMap(targets) ==
  \E oldName \in Names, newName \in targets :
    Call("renameMap", <<oldName, newName>>, renameMap(Cur, oldName, newName))

CallListMaps ==
  \E order \in KeyOrders(storage) :
    /\ listed' = getAllMaps(storage, order)
    /\ lastCall' = [op |-> "listMaps", args |-> <<>>, threw |-> FALSE, stale |-> FALSE,
                     before |-> Before, replaced |-> NoItem]
    /\ roundTrip' = NoRoundTrip
    /\ UNCHANGED <<storeVars, now, uiVars>>

CallCleanupInvalidMaps ==
  \E order \in KeyOrders(storage) :
    Call("cleanupInvalidMaps", <<>>, cleanupInvalidMaps(Cur, order))

\* Time passes between two calls of Date.now().
Tick ==
  /\ now < MaxTime
  /\ now' = now + 1
  /\ UNCHANGED <<storeVars, listed, lastCall, roundTrip, uiVars>>

\* ---------------------------------------------------------------- editor
\* A fetch() whose response has not been handled.  seenNodes / seenEdges are
\* the nodes and edges of the render the handler was created in; mounted tells
\* whether the component instance that issued it is still mounted; stale
\* records that reset() has been called since it was issued.
Request(kind, nodeId, seenNodes, seenEdges) ==
  [kind |-> kind, nodeId |-> nodeId, seenNodes |-> seenNodes, seenEdges |-> seenEdges,
   mounted |-> TRUE, stale |-> FALSE]

RemoveAt(seq, i) == SubSeq(seq, 1, i - 1) \o SubSeq(seq, i + 1, Len(seq))

MarkStale(reqs) == [i \in 1..Len(reqs) |-> [reqs[i] EXCEPT !.stale = TRUE]]

Unmount(reqs) == [i \in 1..Len(reqs) |-> [reqs[i] EXCEPT !.mounted = FALSE]]

\* useState<...|null>(null) of suggestedNodes
NoSuggestions == [some |-> FALSE, parentId |-> "", nodes |-> <<>>, edges |-> <<>>]

\* useState<...|null>(null) of edgeMenu
NoEdgeMenu == [some |-> FALSE, id |-> "", source |-> "", target |-> ""]

\* What POST /api/maps may answer: nodes and edges that pass the server's schema.
GeneratedMaps ==
  {[nodes |-> <<MindMapNode("n1", "A", FALSE)>>, edges |-> <<>>],
   [nodes |-> <<MindMapNode("n1", "A", FALSE), MindMapNode("n2", "B", FALSE)>>,
    edges |-> <<MindMapEdge(0, "n1", "n2")>>]}

\* What POST /api/maps/suggest-children may answer: the suggestions' labels.
SuggestionLists == {<<"A">>, <<"A", "B">>}

\* err.message || 'Unknown error'
ApiError == "API error"

\* handleSubmit up to the await
handleSubmit_begin(s) == setError(setLoading(s, TRUE), Null)

\* handleSubmit after the await, on a 2xx response
handleSubmit_then(s, data) ==
  setLoading(setEdges(setNodes(s, data.nodes), data.edges), FALSE)

handleSubmit_catch_keepsGraph(s, message) ==
  setLoading(setError(s, message), FALSE)

\* handleSubmit after the await, on a failure
handleSubmit_catch(s, message) ==
  setLoading(setEdges(setNodes(setError(s, message), <<>>), <<>>), FALSE)

\* The store after each set() call of handleSubmit's success path, in order:
\* setNodes(data.nodes), setEdges(data.edges), setLoading(false).  zustand
\* notifies the store's subscribers after every one of them.
handleSubmit_then_calls(s, data) ==
  <<setNodes(s, data.nodes),
    setEdges(setNodes(s, data.nodes), data.edges),
    setLoading(setEdges(setNodes(s, data.nodes), data.edges), FALSE)>>

\* The store after each set() call of handleSubmit's failure path, in order:
\* setError(message), setNodes([]), setEdges([]), setLoading(false).
handleSubmit_catch_calls(s, message) ==
  <<setError(s, message),
    setNodes(setError(s, message), <<>>),
    setEdges(setNodes(setError(s, message), <<>>), <<>>),
    setLoading(setEdges(setNodes(setError(s, message), <<>>), <<>>), FALSE)>>

\* handleExpand after the await, on a 2xx response
handleExpand_then(s, seenNodes, seenEdges, data) ==
  LET newNodes == SelectSeq(data.nodes, LAMBDA n :
                    ~\E i \in 1..Len(seenNodes) : seenNodes[i].id = n.id)
      newEdges == SelectSeq(data.edges, LAMBDA e :
                    ~\E i \in 1..Len(seenEdges) :
                       seenEdges[i].source = e.source /\ seenEdges[i].target = e.target)
  IN addEdges(addNodes(s, newNodes), newEdges)

\* `${nodeId}__ai__${crypto.randomUUID()}`
suggestedId(nodeId, uuid) == nodeId \o "__ai__" \o ToString(uuid)

\* handleSuggestChildren after the await: the value given to setSuggestedNodes
handleSuggestChildren_staged(nodeId, suggestions, drawn) ==
  LET newNodes == [i \in 1..Len(suggestions) |->
                     MindMapNode(suggestedId(nodeId, drawn + i), suggestions[i], TRUE)]
      newEdges == [i \in 1..Len(newNodes) |-> MindMapEdge(0, nodeId, newNodes[i].id)]
  IN [some |-> TRUE, parentId |-> nodeId, nodes |-> newNodes, edges |-> newEdges]

handleAcceptSuggestions(s, staged) == addEdges(addNodes(s, staged.nodes), staged.edges)

\* nodes.find(n => n.id === nodeId) is defined
found(ns, nodeId) == \E i \in 1..Len(ns) : ns[i].id = nodeId

Logged(op, args, stale) ==
  /\ lastCall' = [op |-> op, args |-> args, threw |-> FALSE, stale |-> stale,
                   before |-> Before, replaced |-> NoItem]
  /\ roundTrip' = NoRoundTrip
  /\ UNCHANGED <<now, listed, build>>

\* A handler that leaves the insight and clustering panels and the edge
\* interaction state alone.
Handled(op, args, stale) ==
  Logged(op, args, stale) /\ UNCHANGED <<analysisVars, edgeVars, menuVars>>

\* A navbar link or a Link of the landing page is followed.
Navigate ==
  \E to \in {"landing", "editor", "dashboard"} :
    /\ to # route
    /\ route' = to
    /\ IF route = "editor"
       THEN /\ requests' = Unmount(requests)
            /\ suggestLoading' = FALSE
            /\ suggestError' = Null
            /\ suggestedNodes' = NoSuggestions
            /\ expandLoading' = FALSE
            /\ expandError' = Null
            /\ insight' = Null
            /\ insightLoading' = FALSE
            /\ insightError' = Null
            /\ clusters' = Null
            /\ clusterLoading' = FALSE
            /\ clusterError' = Null
            /\ addEdgeSource' = Null
            /\ edgeMenu' = NoEdgeMenu
            /\ menuNode' = Null
            /\ menuPos' = Null
            /\ listeners' = unmounted(listeners, menuNode)
            /\ timers' = cleanup(timers)
       ELSE UNCHANGED <<requests, editorVars, analysisVars, edgeVars, menuVars, timers>>
    /\ Logged("navigate", <<to>>, FALSE)
    /\ UNCHANGED <<storeVars, uuids>>

\* The Generate form is submitted (its button is disabled while loading).
HandleSubmit ==
  /\ route = "editor"
  /\ ~loading
  /\ Len(requests) < MaxInFlight
  /\ Renders(handleSubmit_begin(Cur))
  /\ requests' = Append(requests, Request("generate", "", <<>>, <<>>))
  /\ Handled("handleSubmit", <<>>, FALSE)
  /\ UNCHANGED <<route, editorVars, uuids>>

\* The response of a generation request arrives and handleSubmit resumes.
GenerateResponds ==
  \E i \in 1..Len(requests) :
    /\ requests[i].kind = "generate"
    /\ \/ \E data \in GeneratedMaps :
            /\ Renders(handleSubmit_then(Cur, data))
            /\ Handled("handleSubmit.then", <<data>>, requests[i].stale)
       \/ /\ Renders(handleSubmit_catch(Cur, ApiError))
          /\ Handled("handleSubmit.catch", <<>>, requests[i].stale)
    /\ requests' = RemoveAt(requests, i)
    /\ UNCHANGED <<route, editorVars, uuids>>

\* The editor's Reset button (disabled while loading).
HandleReset ==
  /\ route = "editor"
  /\ ~loading
  /\ Renders(reset(Cur))
  /\ requests' = MarkStale(requests)
  /\ Handled("handleReset", <<>>, FALSE)
  /\ UNCHANGED <<route, editorVars, uuids>>

\* The dashboard's New Map button.
HandleNewMap ==
  /\ route = "dashboard"
  /\ Renders(setSelectedMapId(reset(Cur), Null))
  /\ requests' = MarkStale(requests)
  /\ route' = "editor"
  /\ Handled("handleNewMap", <<>>, FALSE)
  /\ UNCHANGED <<editorVars, uuids>>

\* The node menu's actions are disabled while its loading prop is true.
MenuEnabled == IF build = "final" THEN ~suggestLoading ELSE ~expandLoading

\* The node menu's Delete.
HandleDelete ==
  \E nodeId \in NodeIdSet(nodes) :
    /\ route = "editor"
    /\ MenuEnabled
    /\ menuNode \in {Null, nodeId}
    /\ Renders(deleteNode(Cur, nodeId))
    /\ MenuBecomes(Null, menuPos)
    /\ Logged("handleDelete", <<nodeId>>, FALSE)
    /\ UNCHANGED <<analysisVars, edgeVars>>
    /\ UNCHANGED <<route, requests, editorVars, uuids>>

\* The node menu's Suggest children (final editor).
HandleSuggestChildren ==
  \E nodeId \in NodeIds :
    /\ build = "final"
    /\ route = "editor"
    /\ MenuEnabled
    /\ Len(requests) < MaxInFlight
    /\ suggestLoading' = TRUE
    /\ suggestError' = Null
    /\ suggestedNodes' = NoSuggestions
    /\ requests' = IF found(nodes, nodeId)
                   THEN Append(requests, Request("suggest", nodeId, <<>>, <<>>))
                   ELSE requests
    /\ Handled("handleSuggestChildren", <<nodeId>>, FALSE)
    /\ UNCHANGED <<storeVars, timers, route, expandLoading, expandError, uuids>>

SuggestResponds_merges ==
  \E i \in 1..Len(requests) :
    LET r == requests[i]
    IN /\ r.kind = "suggest"
       /\ \/ \E suggestions \in SuggestionLists :
               LET staged == handleSuggestChildren_staged(r.nodeId, suggestions, uuids)
               IN /\ uuids + Len(suggestions) <= MaxUuids
                  /\ uuids' = uuids + Len(suggestions)
                  /\ suggestedNodes' = IF r.mounted THEN staged ELSE suggestedNodes
                  /\ Renders(handleAcceptSuggestions(Cur, staged))
                  /\ UNCHANGED suggestError
                  /\ Handled("handleSuggestChildren.then", <<r.nodeId>>, r.stale)
          \/ /\ suggestError' = IF r.mounted THEN ApiError ELSE suggestError
             /\ UNCHANGED <<storeVars, timers, suggestedNodes, uuids>>
             /\ Handled("handleSuggestChildren.catch", <<r.nodeId>>, r.stale)
       /\ suggestLoading' = IF r.mounted THEN FALSE ELSE suggestLoading
       /\ requests' = RemoveAt(requests, i)
       /\ UNCHANGED <<route, expandLoading, expandError>>

\* The response of a suggest-children request arrives.  State setters of an
\* instance that has been unmounted have no effect.
SuggestResponds ==
  \E i \in 1..Len(requests) :
    LET r == requests[i]
    IN /\ r.kind = "suggest"
       /\ \/ \E suggestions \in SuggestionLists :
               /\ uuids + Len(suggestions) <= MaxUuids
               /\ uuids' = uuids + Len(suggestions)
               /\ suggestedNodes' =
                    IF r.mounted
                    THEN handleSuggestChildren_staged(r.nodeId, suggestions, uuids)
                    ELSE suggestedNodes
               /\ UNCHANGED suggestError
               /\ Handled("handleSuggestChildren.then", <<r.nodeId>>, r.stale)
          \/ /\ suggestError' = IF r.mounted THEN ApiError ELSE suggestError
             /\ UNCHANGED <<suggestedNodes, uuids>>
             /\ Handled("handleSuggestChildren.catch", <<r.nodeId>>, r.stale)
       /\ suggestLoading' = IF r.mounted THEN FALSE ELSE suggestLoading
       /\ requests' = RemoveAt(requests, i)
       /\ UNCHANGED <<storeVars, timers, route, expandLoading, expandError>>

\* Accept in the suggestions panel.
HandleAcceptSuggestions ==
  /\ route = "editor"
  /\ suggestedNodes.some
  /\ Renders(handleAcceptSuggestions(Cur, suggestedNodes))
  /\ suggestedNodes' = NoSuggestions
  /\ Handled("handleAcceptSuggestions", <<>>, FALSE)
  /\ UNCHANGED <<route, requests, suggestLoading, suggestError, expandLoading, expandError, uuids>>

\* Remove in the suggestions panel.
HandleRemoveSuggestions ==
  /\ route = "editor"
  /\ suggestedNodes.some
  /\ suggestedNodes' = NoSuggestions
  /\ Handled("handleRemoveSuggestions", <<>>, FALSE)
  /\ UNCHANGED <<storeVars, timers, route, requests, suggestLoading, suggestError, expandLoading, expandError, uuids>>

\* The node menu's Expand (draft editor).
HandleExpand ==
  \E nodeId \in NodeIds :
    /\ build = "draft"
    /\ route = "editor"
    /\ MenuEnabled
    /\ Len(requests) < MaxInFlight
    /\ expandLoading' = TRUE
    /\ expandError' = Null
    /\ requests' = IF found(nodes, nodeId)
                   THEN Append(requests, Request("expand", nodeId, nodes, edges))
                   ELSE requests
    /\ Handled("handleExpand", <<nodeId>>, FALSE)
    /\ UNCHANGED <<storeVars, timers, route, suggestLoading, suggestError, suggestedNodes, uuids>>

\* The response of an expand request arrives.
ExpandResponds ==
  \E i \in 1..Len(requests) :
    LET r == requests[i]
    IN /\ r.kind = "expand"
       /\ \/ \E data \in GeneratedMaps :
               /\ Renders(handleExpand_then(Cur, r.seenNodes, r.seenEdges, data))
               /\ UNCHANGED expandError
               /\ Handled("handleExpand.then", <<r.nodeId>>, r.stale)
          \/ /\ expandError' = IF r.mounted THEN ApiError ELSE expandError
             /\ UNCHANGED <<storeVars, timers>>
             /\ Handled("handleExpand.catch", <<r.nodeId>>, r.stale)
       /\ expandLoading' = IF r.mounted THEN FALSE ELSE expandLoading
       /\ requests' = RemoveAt(requests, i)
       /\ UNCHANGED <<route, suggestLoading, suggestError, suggestedNodes, uuids>>

\* Save in the Save Mind Map dialog; an empty name is refused.
HandleSaveMap ==
  \E name \in SaveNames :
    /\ route = "editor"
    /\ Renders(saveMap(Cur, name, now))
    /\ Handled("handleSaveMap", <<name>>, FALSE)
    /\ UNCHANGED <<route, requests, editorVars, uuids>>

\* What POST /api/maps/insight and /semantic-clusters answer.
InsightText == "insight"
ClusterList == "clusters"

\* The Insight button (final editor; disabled while insightLoading or when
\* there are no nodes).  A cached insight is shown without a request.
HandleGenerateInsight ==
  /\ build = "final"
  /\ route = "editor"
  /\ ~insightLoading
  /\ nodes # <<>>
  /\ IF insight # Null
     THEN UNCHANGED <<requests, analysisVars>>
     ELSE /\ Len(requests) < MaxInFlight
          /\ insightLoading' = TRUE
          /\ insightError' = Null
          /\ requests' = Append(requests, Request("insight", "", nodes, edges))
          /\ UNCHANGED <<insight, clusters, clusterLoading, clusterError>>
  /\ Logged("handleGenerateInsight", <<>>, FALSE)
  /\ UNCHANGED <<storeVars, timers, route, editorVars, edgeVars, menuVars, uuids>>

InsightResponds_clearsOnFailure ==
  \E i \in 1..Len(requests) :
    LET r == requests[i]
    IN /\ r.kind = "insight"
       /\ \/ /\ insight' = IF r.mounted THEN InsightText ELSE insight
             /\ UNCHANGED <<storeVars, timers, insightError>>
             /\ Logged("handleGenerateInsight.then", <<>>, r.stale)
          \/ /\ insightError' = IF r.mounted THEN ApiError ELSE insightError
             /\ Renders(setEdges(setNodes(Cur, <<>>), <<>>))
             /\ UNCHANGED insight
             /\ Logged("handleGenerateInsight.catch", <<>>, r.stale)
       /\ insightLoading' = IF r.mounted THEN FALSE ELSE insightLoading
       /\ requests' = RemoveAt(requests, i)
       /\ UNCHANGED <<route, editorVars, edgeVars, menuVars, uuids, clusters, clusterLoading, clusterError>>

\* The response of an insight request arrives.
InsightResponds ==
  \E i \in 1..Len(requests) :
    LET r == requests[i]
    IN /\ r.kind = "insight"
       /\ \/ /\ insight' = IF r.mounted THEN InsightText ELSE insight
             /\ UNCHANGED insightError
             /\ Logged("handleGenerateInsight.then", <<>>, r.stale)
          \/ /\ insightError' = IF r.mounted THEN ApiError ELSE insightError
             /\ UNCHANGED insight
             /\ Logged("handleGenerateInsight.catch", <<>>, r.stale)
       /\ insightLoading' = IF r.mounted THEN FALSE ELSE insightLoading
       /\ requests' = RemoveAt(requests, i)
       /\ UNCHANGED <<storeVars, timers, route, editorVars, edgeVars, menuVars, uuids,
                      clusters, clusterLoading, clusterError>>

\* The Semantic Clustering button (final editor; disabled while
\* clusterLoading or when there are no nodes).
HandleSemanticClustering ==
  /\ build = "final"
  /\ route = "editor"
  /\ ~clusterLoading
  /\ nodes # <<>>
  /\ Len(requests) < MaxInFlight
  /\ clusterLoading' = TRUE
  /\ clusterError' = Null
  /\ clusters' = Null
  /\ requests' = Append(requests, Request("clusters", "", nodes, edges))
  /\ Logged("handleSemanticClustering", <<>>, FALSE)
  /\ UNCHANGED <<storeVars, timers, route, editorVars, edgeVars, menuVars, uuids,
                 insight, insightLoading, insightError>>

\* The response of a clustering request arrives.
ClusterResponds ==
  \E i \in 1..Len(requests) :
    LET r == requests[i]
    IN /\ r.kind = "clusters"
       /\ \/ /\ clusters' = IF r.mounted THEN ClusterList ELSE clusters
             /\ UNCHANGED clusterError
             /\ Logged("handleSemanticClustering.then", <<>>, r.stale)
          \/ /\ clusterError' = IF r.mounted THEN ApiError ELSE clusterError
             /\ UNCHANGED clusters
             /\ Logged("handleSemanticClustering.catch", <<>>, r.stale)
       /\ clusterLoading' = IF r.mounted THEN FALSE ELSE clusterLoading
       /\ requests' = RemoveAt(requests, i)
       /\ UNCHANGED <<storeVars, timers, route, editorVars, edgeVars, menuVars, uuids,
                      insight, insightLoading, insightError>>

\* ---------------------------------------------------------------- edge editing
\* The CytoscapeComponent is rendered unless the store is empty and idle.
surfaceShown == ~(nodes = <<>> /\ ~loading /\ error = Null)

\* e.id || `${e.source}__${e.target}`
elementId(e) == IF e.id # 0 THEN ToString(e.id) ELSE e.source \o "__" \o e.target

elements_flagsNothing(ns, es) ==
  [nodes |-> [i \in 1..Len(ns) |-> [id |-> ns[i].id, label |-> ns[i].label]],
   edges |-> [i \in 1..Len(es) |->
                [id |-> elementId(es[i]), source |-> es[i].source, target |-> es[i].target,
                 classes |-> ""]]]

\* The element list given to the CytoscapeComponent.
elements(ns, es) ==
  [nodes |-> [i \in 1..Len(ns) |-> [id |-> ns[i].id, label |-> ns[i].label]],
   edges |-> [i \in 1..Len(es) |->
                [id |-> elementId(es[i]), source |-> es[i].source, target |-> es[i].target,
                 classes |-> IF es[i].source = es[i].target THEN "circular" ELSE ""]]]

\* edges.some(e => e.source === source && e.target === target)
hasEdge(es, source, target) ==
  \E i \in 1..Len(es) : es[i].source = source /\ es[i].target = target

\* `${source}__${target}__${crypto.randomUUID()}`, for the uuid-th value drawn
edgeId(source, target, uuid) == uuid

complete_allowsDuplicates(s, seenEdges, source, target, uuid) ==
  setEdges(s, Append(seenEdges, MindMapEdge(edgeId(source, target, uuid), source, target)))

\* The complete callback of initEdgeHandles; seenEdges is the edge list of the
\* render that created the callback.
complete(s, seenEdges, source, target, uuid) ==
  IF hasEdge(seenEdges, source, target)
  THEN s
  ELSE setEdges(s, Append(seenEdges, MindMapEdge(edgeId(source, target, uuid), source, target)))

handler_ignoresSource(s, seenEdges, source, targetId, uuid) ==
  IF hasEdge(seenEdges, source, targetId)
  THEN s
  ELSE setEdges(s, Append(seenEdges, MindMapEdge(edgeId(source, targetId, uuid), source, targetId)))

\* The tap handler of the add-edge mode, for a tap on the node targetId while
\* addEdgeSource is source.
handler(s, seenEdges, source, targetId, uuid) ==
  IF targetId = source \/ hasEdge(seenEdges, source, targetId)
  THEN s
  ELSE setEdges(s, Append(seenEdges, MindMapEdge(edgeId(source, targetId, uuid), source, targetId)))

keyDelete_removesSources(s, seenEdges, toRemove) ==
  setEdges(s, SelectSeq(seenEdges, LAMBDA e :
                ~\E rm \in toRemove : rm.source = e.source))

\* The keydown handler for Delete / Backspace; toRemove holds the endpoint
\* pairs of the selected edge elements.
keyDelete(s, seenEdges, toRemove) ==
  setEdges(s, SelectSeq(seenEdges, LAMBDA e :
                ~\E rm \in toRemove : rm.source = e.source /\ rm.target = e.target))

\* Delete Edge in the edge context menu.
handleDeleteEdgeMenu(s, seenEdges, menu) ==
  setEdges(s, SelectSeq(seenEdges, LAMBDA e :
                IF e.id # 0
                THEN ToString(e.id) # menu.id
                ELSE ~(e.source = menu.source /\ e.target = menu.target)))

\* A handler of the edge interactions: it leaves the panels alone.
Interacted(op, args) == Logged(op, args, FALSE) /\ UNCHANGED <<analysisVars, menuVars>>

\* Add Edge in the node menu of a node of the graph.
OnAddEdge ==
  \E nodeId \in NodeIdSet(nodes) :
    /\ build = "final"
    /\ route = "editor"
    /\ MenuEnabled
    /\ menuNode \in {Null, nodeId}
    /\ addEdgeSource' = nodeId
    /\ MenuBecomes(Null, menuPos)
    /\ Logged("onAddEdge", <<nodeId>>, FALSE)
    /\ UNCHANGED analysisVars
    /\ UNCHANGED <<storeVars, timers, route, requests, editorVars, edgeMenu, uuids>>

\* A tap on a node of the surface: the edge menu is hidden and, in add-edge
\* mode, the tap handler runs.
TapNode ==
  \E targetId \in NodeIdSet(nodes) :
    LET after == handler(Cur, edges, addEdgeSource, targetId, uuids + 1)
    IN /\ build = "final"
       /\ route = "editor"
       /\ surfaceShown
       /\ edgeMenu' = NoEdgeMenu
       /\ addEdgeSource' = Null
       /\ IF addEdgeSource = Null
          THEN UNCHANGED <<storeVars, timers, uuids>>
          ELSE /\ Renders(after)
               /\ IF after.edges = edges
                  THEN UNCHANGED uuids
                  ELSE /\ uuids < MaxUuids
                       /\ Len(edges) < MaxEdges
                       /\ uuids' = uuids + 1
       /\ Interacted("tap", <<addEdgeSource, targetId>>)
       /\ UNCHANGED <<route, requests, editorVars>>

\* A tap on the background or on an edge.
TapElsewhere ==
  /\ build = "final"
  /\ route = "editor"
  /\ surfaceShown
  /\ edgeMenu' = NoEdgeMenu
  /\ addEdgeSource' = Null
  /\ Interacted("tap", <<addEdgeSource, Null>>)
  /\ UNCHANGED <<storeVars, timers, route, requests, editorVars, uuids>>

\* An edge is dragged from the handle of one node onto a node.
DragComplete ==
  \E source \in NodeIdSet(nodes), target \in NodeIdSet(nodes) :
    LET after == complete(Cur, edges, source, target, uuids + 1)
    IN /\ build = "final"
       /\ route = "editor"
       /\ surfaceShown
       /\ Renders(after)
       /\ IF after.edges = edges
          THEN UNCHANGED uuids
          ELSE /\ uuids < MaxUuids
               /\ Len(edges) < MaxEdges
               /\ uuids' = uuids + 1
       /\ Interacted("complete", <<source, target>>)
       /\ UNCHANGED <<route, requests, editorVars, edgeVars, menuVars>>

\* Delete or Backspace is pressed while some edge elements are selected.
KeyDelete ==
  \E sel \in SUBSET (1..Len(edges)) :
    LET shown == elements(nodes, edges).edges
        toRemove == {[source |-> shown[i].source, target |-> shown[i].target] : i \in sel}
    IN /\ build = "final"
       /\ route = "editor"
       /\ surfaceShown
       /\ sel # {}
       /\ Renders(keyDelete(Cur, edges, toRemove))
       /\ Interacted("keyDelete", <<toRemove>>)
       /\ UNCHANGED <<route, requests, editorVars, edgeVars, menuVars, uuids>>

\* A right-click on an edge element opens the edge context menu.
OnEdgeContext ==
  \E i \in 1..Len(edges) :
    LET edge == elements(nodes, edges).edges[i]
    IN /\ build = "final"
       /\ route = "editor"
       /\ surfaceShown
       /\ edgeMenu' = [some |-> TRUE, id |-> edge.id,
                       source |-> edge.source, target |-> edge.target]
       /\ Interacted("onEdgeContext", <<i>>)
       /\ UNCHANGED <<storeVars, timers, route, requests, editorVars, addEdgeSource, uuids>>

\* Delete Edge in the edge context menu.
HandleDeleteEdgeMenu ==
  /\ build = "final"
  /\ route = "editor"
  /\ edgeMenu.some
  /\ Renders(handleDeleteEdgeMenu(Cur, edges, edgeMenu))
  /\ edgeMenu' = NoEdgeMenu
  /\ Interacted("handleDeleteEdgeMenu", <<edgeMenu>>)
  /\ UNCHANGED <<route, requests, editorVars, addEdgeSource, uuids>>

\* ------------------------------------------- node menu and position overlay
\* A right-click on a node of the surface opens the node menu at that node.
OnNodeContext ==
  \E nodeId \in NodeIdSet(nodes) :
    /\ build = "final"
    /\ route = "editor"
    /\ surfaceShown
    /\ MenuBecomes(nodeId, "at node")
    /\ Logged("onNodeContext", <<nodeId>>, FALSE)
    /\ UNCHANGED <<storeVars, timers, route, requests, editorVars, analysisVars, edgeVars, uuids>>

\* A mousedown reaches document while the outside-click listener is attached;
\* it can be inside the menu only when the menu is rendered.
MouseDown ==
  \E where \in {"inside", "outside"} :
    LET inside == where = "inside"
        menu == handleClick([node |-> menuNode, pos |-> menuPos], inside)
    IN /\ build = "final"
       /\ route = "editor"
       /\ listeners > 0
       /\ inside => (menuNode # Null /\ menuPos # Null)
       /\ MenuBecomes(menu.node, menu.pos)
       /\ Logged("mousedown", <<where>>, FALSE)
       /\ UNCHANGED <<storeVars, timers, route, requests, editorVars, analysisVars, edgeVars, uuids>>

\* The surface emits render, drag, free, pan, zoom or layoutstop.
CyEvent ==
  /\ build = "final"
  /\ route = "editor"
  /\ surfaceShown
  /\ timers.orphans < MaxTimers
  /\ timers' = debounce(timers)
  /\ Handled("debouncedUpdate", <<>>, FALSE)
  /\ UNCHANGED <<storeVars, route, requests, editorVars, uuids>>

\* A debounce timeout expires and updatePositions runs: that of the
\* registered closure, or one left behind by a closure no longer registered.
Timeout ==
  \E closure \in {"registered", "removed"} :
    /\ IF closure = "registered"
       THEN timers.current /\ timers' = [timers EXCEPT !.current = FALSE]
       ELSE timers.orphans > 0 /\ timers' = [timers EXCEPT !.orphans = @ - 1]
    /\ Handled("updatePositions", <<closure>>, FALSE)
    /\ UNCHANGED <<storeVars, route, requests, editorVars, uuids>>

\* ---------------------------------------------------------------- specifications
EmptyStorage == [k \in Keys |-> NoItem]

\* What an earlier session may have left under a map key.
LeftBehind == {NoItem, InvalidText, NullText, LegacyText}

InitStore ==
  /\ nodes = <<>>
  /\ edges = <<>>
  /\ loading = FALSE
  /\ error = Null
  /\ selectedMapId = Null
  /\ now = 1
  /\ listed = <<>>
  /\ lastCall = NoCall
  /\ roundTrip = NoRoundTrip
  /\ route = "landing"
  /\ requests = <<>>
  /\ suggestLoading = FALSE
  /\ suggestError = Null
  /\ suggestedNodes = NoSuggestions
  /\ expandLoading = FALSE
  /\ expandError = Null
  /\ insight = Null
  /\ insightLoading = FALSE
  /\ insightError = Null
  /\ clusters = Null
  /\ clusterLoading = FALSE
  /\ clusterError = Null
  /\ addEdgeSource = Null
  /\ edgeMenu = NoEdgeMenu
  /\ menuNode = Null
  /\ menuPos = Null
  /\ listeners = 0
  /\ timers = NoTimers
  /\ uuids = 0

\* A fresh browser profile.
Init == InitStore /\ storage = EmptyStorage /\ build = "final"

\* A profile in which earlier sessions have written to localStorage.
InitReturning ==
  /\ InitStore
  /\ \E left \in LeftBehind :
       storage = [EmptyStorage EXCEPT ![MapKey("u")] = left, ![OtherKey] = InvalidText]
  /\ build = "final"

\* A fresh profile running either build of the editor.
InitEditor == InitStore /\ storage = EmptyStorage /\ build \in {"final", "draft"}

\* The graph primitives alone: any sequence of addNodes, addEdges, deleteNode.
NextGraph == CallAddNodes \/ CallAddEdges \/ CallDeleteNode

SpecGraph == Init /\ [][NextGraph]_vars

\* Nodes of a generated graph are renamed, deleted and added to.
NextNodes ==
  \/ CallSetNodes
  \/ CallSetEdges
  \/ CallAddNodes
  \/ CallRenameNode
  \/ CallDeleteNode

SpecNodes == Init /\ [][NextNodes]_vars

\* Saving, loading, renaming and deleting maps while the graph is edited.
NextPersist ==
  \/ CallSetNodes
  \/ CallSetEdges
  \/ CallReset
  \/ CallSaveMap
  \/ CallLoadMap
  \/ CallDeleteMap
  \/ CallRenameMap(SaveNames)

SpecPersist == InitReturning /\ [][NextPersist]_vars

\* Saving at different times and renaming one map onto another.
NextRename ==
  \/ CallSetNodes
  \/ CallSaveMap
  \/ CallRenameMap(SaveNames)
  \/ Tick

SpecRename == InitReturning /\ [][NextRename]_vars

\* The dashboard: listing, renaming (also to the empty name), cleaning up.
NextListing ==
  \/ CallSetNodes
  \/ CallSaveMap
  \/ CallDeleteMap
  \/ CallRenameMap({"a", "b", ""})
  \/ CallListMaps
  \/ CallCleanupInvalidMaps
  \/ Tick

SpecListing == InitReturning /\ [][NextListing]_vars

\* Every operation that writes the loaded-map marker or removes an entry.
NextMarker ==
  \/ CallSetNodes
  \/ CallSaveMap
  \/ CallLoadMap
  \/ CallDeleteMap
  \/ CallRenameMap(SaveNames)
  \/ CallCleanupInvalidMaps

SpecMarker == InitReturning /\ [][NextMarker]_vars

\* Cleaning up what earlier sessions and renames have left in storage.
NextCleanup ==
  \/ CallSetNodes
  \/ CallSaveMap
  \/ CallRenameMap({"b", ""})
  \/ CallCleanupInvalidMaps

SpecCleanup == InitReturning /\ [][NextCleanup]_vars

\* The editor and the dashboard's New Map, with requests in flight.
NextEditor ==
  \/ Navigate
  \/ HandleSubmit
  \/ GenerateResponds
  \/ HandleReset
  \/ HandleNewMap
  \/ HandleDelete
  \/ HandleSuggestChildren
  \/ SuggestResponds
  \/ HandleAcceptSuggestions
  \/ HandleRemoveSuggestions
  \/ HandleExpand
  \/ ExpandResponds

SpecEditor == InitEditor /\ [][NextEditor]_vars

\* Generation alone: submitting, resetting, starting a new map, deleting nodes.
NextGenerate ==
  \/ Navigate
  \/ HandleSubmit
  \/ GenerateResponds
  \/ HandleReset
  \/ HandleNewMap
  \/ HandleDelete

SpecGenerate == Init /\ [][NextGenerate]_vars

\* The final editor: suggestions are requested, then accepted or removed.
NextStaging ==
  \/ Navigate
  \/ HandleSubmit
  \/ GenerateResponds
  \/ HandleSuggestChildren
  \/ SuggestResponds
  \/ HandleAcceptSuggestions
  \/ HandleRemoveSuggestions

SpecStaging == Init /\ [][NextStaging]_vars

\* The same, with every fetch() settling: a request in flight is answered or
\* fails, and its handler resumes.  Nothing obliges the user to act.
SpecStagingFair ==
  /\ Init
  /\ [][NextStaging]_vars
  /\ WF_vars(SuggestResponds)
  /\ WF_vars(GenerateResponds)

\* The final editor: suggestions are requested, accepted or removed, and the
\* map is saved.
NextSuggest ==
  \/ Navigate
  \/ HandleSubmit
  \/ GenerateResponds
  \/ HandleSuggestChildren
  \/ SuggestResponds
  \/ HandleAcceptSuggestions
  \/ HandleRemoveSuggestions
  \/ HandleSaveMap

SpecSuggest == Init /\ [][NextSuggest]_vars

\* The final editor: the requests that only read the graph.
NextAnalysis ==
  \/ Navigate
  \/ HandleSubmit
  \/ GenerateResponds
  \/ HandleSuggestChildren
  \/ SuggestResponds
  \/ HandleGenerateInsight
  \/ InsightResponds
  \/ HandleSemanticClustering
  \/ ClusterResponds

SpecAnalysis == Init /\ [][NextAnalysis]_vars

\* The final editor: edges are drawn, picked and deleted by hand on a
\* generated map.
NextEdges ==
  \/ Navigate
  \/ HandleSubmit
  \/ GenerateResponds
  \/ OnAddEdge
  \/ TapNode
  \/ TapElsewhere
  \/ DragComplete
  \/ KeyDelete
  \/ OnEdgeContext
  \/ HandleDeleteEdgeMenu

SpecEdges == Init /\ [][NextEdges]_vars

\* The final editor: edges are committed by hand or by accepting suggestions
\* while nodes are deleted and the graph is reset or replaced.
NextCommit ==
  \/ Navigate
  \/ HandleSubmit
  \/ GenerateResponds
  \/ HandleReset
  \/ HandleDelete
  \/ OnAddEdge
  \/ TapNode
  \/ TapElsewhere
  \/ DragComplete
  \/ HandleSuggestChildren
  \/ SuggestResponds
  \/ HandleAcceptSuggestions
  \/ HandleRemoveSuggestions

SpecCommit == Init /\ [][NextCommit]_vars

\* The final editor: an edge is picked by hand after its source was deleted,
\* and the map is saved.
NextRender ==
  \/ Navigate
  \/ HandleSubmit
  \/ GenerateResponds
  \/ HandleDelete
  \/ OnAddEdge
  \/ TapNode
  \/ TapElsewhere
  \/ HandleSaveMap

SpecRender == Init /\ [][NextRender]_vars

\* ---------------------------------------------------------------- claims
\* The elements of seq at the indexes in kept, in their order in seq.
Remaining(seq, kept) ==
  [k \in 1..Cardinality(kept) |->
     seq[CHOOSE i \in kept : Cardinality({j \in kept : j <= i}) = k]]

\* C1: after every addNodes / deleteNode / addEdges call, every edge of the
\* store has its source and its target among the ids of the store's nodes.
C1_NoDanglingEdges ==
  \A i \in 1..Len(edges) :
    edges[i].source \in NodeIdSet(nodes) /\ edges[i].target \in NodeIdSet(nodes)

\* C2: no two edges of the store share the same (source, target) pair
\* (addEdges skips an edge whose pair is already present).
C2_NoDuplicateEdges ==
  \A i, j \in 1..Len(edges) :
    (edges[i].source = edges[j].source /\ edges[i].target = edges[j].target) => i = j

\* C3: a deleteNode(id) call is one transition after which no node has that
\* id and no edge touches it, while every other node and edge, and every
\* other field of the store, is as it was before the call.
C3_DeleteNodeCascade ==
  [][lastCall'.op = "deleteNode" =>
       LET id == lastCall'.args[1]
       IN /\ id \notin NodeIdSet(nodes')
          /\ \A i \in 1..Len(edges') : edges'[i].source # id /\ edges'[i].target # id
          /\ nodes' = Remaining(nodes, {i \in 1..Len(nodes) : nodes[i].id # id})
          /\ edges' = Remaining(edges, {i \in 1..Len(edges) :
                                          edges[i].source # id /\ edges[i].target # id})
          /\ UNCHANGED <<loading, error, selectedMapId, storage>>]_vars

\* deleteNode("n2") has run and left the other two nodes and the edge between them.
C3_Witness ==
  /\ lastCall.op = "deleteNode"
  /\ lastCall.args = <<"n2">>
  /\ NodeIdSet(nodes) = {"n1", "n3"}
  /\ Len(edges) = 1
  /\ edges[1].source = "n1" /\ edges[1].target = "n3"

\* C4: from every state, saveMap(x) followed by reset() followed by
\* loadMap(x) yields the nodes and edges the store held before the save.
C4_RoundTrip ==
  \A x \in Names :
    LET loaded == loadMap(reset(saveMap(Cur, x, now)), x)
    IN /\ loaded.nodes = nodes
       /\ loaded.edges = edges
       /\ ~loaded.threw

\* saveMap(x), reset(), loadMap(x) have run in sequence on the sample graph.
C4_Witness ==
  /\ roundTrip.phase = "loaded"
  /\ nodes = SampleNodes
  /\ edges = SampleEdges

\* The item holds a JSON object.
HoldsObject(text) == text.kind = "object"

\* C5: for an existing entry a and a different name b, after renameMap(a, b)
\* there is no entry under a, loadMap(a) changes nothing, loadMap(b) loads
\* the nodes and edges that were stored under a, and the stored name is b.
C5_RenameIsMove ==
  \A a, b \in Names :
    (a # b /\ HoldsObject(storage[MapKey(a)])) =>
      LET old == JSONparse(storage[MapKey(a)]).value
          renamed == renameMap(Cur, a, b)
          loadedB == loadMap(renamed, b)
      IN /\ renamed.storage[MapKey(a)] = NoItem
         /\ loadMap(renamed, a) = renamed
         /\ loadedB.nodes = old.nodes
         /\ loadedB.edges = old.edges
         /\ ~loadedB.threw
         /\ JSONparse(renamed.storage[MapKey(b)]).value.name = b

\* renameMap("a", "b") has moved a saved graph from a to b.
C5_Witness ==
  /\ lastCall.op = "renameMap"
  /\ lastCall.args = <<"a", "b">>
  /\ storage[MapKey("a")] = NoItem
  /\ HoldsObject(storage[MapKey("b")])
  /\ storage[MapKey("b")].name = "b"
  /\ storage[MapKey("b")].nodes # <<>>

\* The map keys whose item parses and has all four members, createdAt a number.
CarriesAllFields(text) ==
  /\ HoldsObject(text)
  /\ AllMembers \subseteq text.members
  /\ text.createdAt \in Int

MapKeysWith(Test(_)) == {k \in PresentKeys(storage) : startsWithMindmaps(k) /\ Test(storage[k])}

SortedByCreatedAtDesc(maps) ==
  \A i, j \in 1..Len(maps) : i < j => maps[i].createdAt >= maps[j].createdAt

ListedExactly(keys) ==
  /\ Len(listed) = Cardinality(keys)
  /\ Range(listed) = {JSONparse(storage[k]).value : k \in keys}
  /\ SortedByCreatedAtDesc(listed)

\* C6: listMaps returns exactly the 'mindmaps:' entries that parse and carry
\* name, nodes, edges and a numeric createdAt, ordered by createdAt descending.
C6_ListsEntriesCarryingFields ==
  lastCall.op = "listMaps" => ListedExactly(MapKeysWith(CarriesAllFields))

\* C7: after cleanupInvalidMaps, the 'mindmaps:' entries that remain are
\* exactly the entries listMaps returns.
C7_CleanupLeavesListedEntries ==
  lastCall.op = "cleanupInvalidMaps" =>
    \A order \in KeyOrders(storage) :
      LET remaining == MapKeysWith(LAMBDA text : TRUE)
          returned == getAllMaps(storage, order)
      IN /\ Len(returned) = Cardinality(remaining)
         /\ Range(returned) = {JSONparse(storage[k]).value : k \in remaining}

\* C8: loadMap(name) on a missing or unparseable entry does not throw and
\* leaves nodes, edges and selectedMapId as they were.
C8_LoadMapToleratesBadEntry ==
  [][(/\ lastCall'.op = "loadMap"
      /\ storage[MapKey(lastCall'.args[1])] \in {NoItem, InvalidText})
       => (~lastCall'.threw /\ UNCHANGED <<nodes, edges, selectedMapId>>)]_vars

\* C9: when the response of an expand or suggest-children request that was
\* started before a reset() is handled while the store is empty, the store's
\* nodes and edges are still empty afterwards.
C9_StaleNodeResponseDiscarded ==
  [][(/\ lastCall'.op \in {"handleSuggestChildren.then", "handleSuggestChildren.catch",
                          "handleExpand.then", "handleExpand.catch"}
      /\ lastCall'.stale
      /\ nodes = <<>> /\ edges = <<>>)
       => (nodes' = <<>> /\ edges' = <<>>)]_vars

\* C10: when the response of a generation request that was in flight at a
\* reset() is handled while the store is as reset left it, nodes, edges,
\* loading and error do not change.
C10_StaleGenerationDiscarded ==
  [][(/\ lastCall'.op \in {"handleSubmit.then", "handleSubmit.catch"}
      /\ lastCall'.stale
      /\ nodes = <<>> /\ edges = <<>> /\ loading = FALSE /\ error = Null)
       => UNCHANGED <<nodes, edges, loading, error>>]_vars

\* ---------------------------------------------------------------- generation
\* The generation requests whose response has not been handled.
GenerationsInFlight == {i \in 1..Len(requests) : requests[i].kind = "generate"}

\* C11: in every reachable state at most one top-level generation request is
\* outstanding, and loading is true while one is.
C11_OneGenerationInFlight ==
  /\ Cardinality(GenerationsInFlight) <= 1
  /\ GenerationsInFlight # {} => loading

\* C12: when a generation request succeeds, the store holds exactly the nodes
\* and edges of the response, loading is false and error is null.
C12_GenerateReplaces ==
  [][lastCall'.op = "handleSubmit.then" =>
       /\ nodes' = lastCall'.args[1].nodes
       /\ edges' = lastCall'.args[1].edges
       /\ loading' = FALSE
       /\ error' = Null]_vars

\* C13: when a generation request fails, the store ends with no nodes, no
\* edges, a non-null error and loading false, whatever graph it held.
C13_GenerateFailureClears ==
  [][lastCall'.op = "handleSubmit.catch" =>
       /\ nodes' = <<>>
       /\ edges' = <<>>
       /\ error' # Null
       /\ loading' = FALSE]_vars

\* A generation request has failed while the store held a graph.
C13_Witness ==
  /\ lastCall.op = "handleSubmit.catch"
  /\ lastCall.before.nodes # <<>>
  /\ lastCall.before.edges # <<>>
  /\ nodes = <<>>
  /\ edges = <<>>
  /\ error = ApiError

\* ---------------------------------------------------------------- suggestions
\* None of the nodes ns is in the store.
disjointFromStore(ns) == NodeIdSet(ns) \cap NodeIdSet(nodes) = {}

\* C14: starting a suggest-children request, its response and its failure
\* leave the store's nodes and edges unchanged, and removing the suggestions
\* empties the staging area without changing the store.
C14_SuggestionsAreStaged ==
  [][/\ lastCall'.op \in {"handleSuggestChildren", "handleSuggestChildren.then",
                          "handleSuggestChildren.catch", "handleRemoveSuggestions"}
          => UNCHANGED <<nodes, edges>>
     /\ lastCall'.op = "handleRemoveSuggestions"
          => suggestedNodes' = NoSuggestions /\ UNCHANGED storeVars]_vars

\* Two suggestions are staged for a node of the store, which holds what it
\* held when the response arrived.
C14_Witness ==
  /\ lastCall.op = "handleSuggestChildren.then"
  /\ suggestedNodes.some
  /\ Len(suggestedNodes.nodes) = 2
  /\ found(nodes, suggestedNodes.parentId)
  /\ nodes = lastCall.before.nodes
  /\ disjointFromStore(suggestedNodes.nodes)

\* C15: after handleAcceptSuggestions every staged node and edge is in the
\* store, the staging area is empty and no node of the store is marked
\* aiSuggested.
C15_AcceptClearsProvisional ==
  [][lastCall'.op = "handleAcceptSuggestions" =>
       /\ \A i \in 1..Len(suggestedNodes.nodes) :
            suggestedNodes.nodes[i].id \in NodeIdSet(nodes')
       /\ \A i \in 1..Len(suggestedNodes.edges) :
            \E j \in 1..Len(edges') :
              /\ edges'[j].source = suggestedNodes.edges[i].source
              /\ edges'[j].target = suggestedNodes.edges[i].target
       /\ suggestedNodes' = NoSuggestions
       /\ \A j \in 1..Len(nodes') : ~nodes'[j].aiSuggested]_vars

\* C16: no item in storage holds a node marked aiSuggested, so no snapshot
\* written by saveMap contains provisional data.
C16_NoProvisionalPersisted ==
  \A k \in Keys :
    storage[k].kind = "object" =>
      \A i \in 1..Len(storage[k].nodes) : "aiSuggested" \notin storage[k].nodes[i].members

\* C17: issuing a suggest-children, insight or clustering request and
\* handling its failure leave the store as it was; the failure changes only
\* that request's own error and loading flags.
C17_FailedRequestLeavesStore ==
  [][/\ lastCall'.op \in {"handleSuggestChildren", "handleGenerateInsight",
                          "handleSemanticClustering"}
          => UNCHANGED storeVars
     /\ lastCall'.op = "handleSuggestChildren.catch"
          => UNCHANGED <<storeVars, suggestedNodes, expandLoading, expandError, analysisVars>>
     /\ lastCall'.op = "handleGenerateInsight.catch"
          => UNCHANGED <<storeVars, editorVars, insight, clusters, clusterLoading, clusterError>>
     /\ lastCall'.op = "handleSemanticClustering.catch"
          => UNCHANGED <<storeVars, editorVars, clusters, insight, insightLoading, insightError>>]_vars

\* An insight request has failed while the store held a graph, which is
\* still there.
C17_Witness ==
  /\ lastCall.op = "handleGenerateInsight.catch"
  /\ insightError = ApiError
  /\ ~insightLoading
  /\ Len(nodes) = 2
  /\ edges # <<>>
  /\ nodes = lastCall.before.nodes

\* ---------------------------------------------------------------- saved maps
\* Every item of storage but the one under key is what it was.
OtherItemsUnchanged(keys) == \A k \in Keys \ keys : storage'[k] = storage[k]

\* C18: deleteMap(name) removes the item stored under name; when name is the
\* loaded map it empties nodes and edges and sets selectedMapId to null, and
\* otherwise it leaves nodes, edges and selectedMapId unchanged.
C18_DeleteMapFrame ==
  [][lastCall'.op = "deleteMap" =>
       LET name == lastCall'.args[1]
       IN /\ storage'[MapKey(name)] = NoItem
          /\ OtherItemsUnchanged({MapKey(name)})
          /\ ~lastCall'.threw
          /\ IF selectedMapId = name
             THEN nodes' = <<>> /\ edges' = <<>> /\ selectedMapId' = Null
             ELSE UNCHANGED <<nodes, edges, selectedMapId>>]_vars

\* The loaded map, with a graph in the store, has been deleted.
C18_Witness ==
  /\ lastCall.op = "deleteMap"
  /\ lastCall.before.selectedMapId = lastCall.args[1]
  /\ lastCall.before.nodes # <<>>
  /\ lastCall.before.edges # <<>>
  /\ lastCall.replaced.kind = "object"
  /\ nodes = <<>>
  /\ selectedMapId = Null

\* C19: saveMap(name) over an existing entry keeps that entry's createdAt;
\* createdAt is the current time only when there was no entry under name.
C19_CreatedAtFirstWriteWins ==
  [][lastCall'.op = "saveMap" =>
       LET old == storage[MapKey(lastCall'.args[1])]
           new == storage'[MapKey(lastCall'.args[1])]
       IN IF old.kind = "object" /\ "createdAt" \in old.members
          THEN new.createdAt = old.createdAt
          ELSE old = NoItem => new.createdAt = now]_vars

\* C20: renameMap(oldName, newName) onto a name that holds another entry
\* leaves under newName the nodes, edges and createdAt of oldName and nothing
\* under oldName; when there is no entry under oldName nothing changes.
C20_RenameOverwrites ==
  [][lastCall'.op = "renameMap" =>
       LET oldName == lastCall'.args[1]
           newName == lastCall'.args[2]
           old == storage[MapKey(oldName)]
           new == storage'[MapKey(newName)]
       IN /\ old = NoItem => UNCHANGED storeVars /\ ~lastCall'.threw
          /\ (oldName # newName /\ old.kind = "object" /\ storage[MapKey(newName)] # NoItem)
               => /\ new.kind = "object"
                  /\ new.name = newName
                  /\ new.nodes = old.nodes
                  /\ new.edges = old.edges
                  /\ new.createdAt = old.createdAt
                  /\ new.members = old.members \cup {"name"}
                  /\ storage'[MapKey(oldName)] = NoItem
                  /\ OtherItemsUnchanged({MapKey(oldName), MapKey(newName)})
                  /\ UNCHANGED <<nodes, edges>>]_vars

\* renameMap("a", "b") has replaced an entry of another age and another graph.
C20_Witness ==
  /\ lastCall.op = "renameMap"
  /\ lastCall.args = <<"a", "b">>
  /\ lastCall.replaced.kind = "object"
  /\ storage[MapKey("b")].kind = "object"
  /\ storage[MapKey("b")].createdAt # lastCall.replaced.createdAt
  /\ storage[MapKey("b")].nodes # lastCall.replaced.nodes
  /\ storage[MapKey("a")] = NoItem

\* No two edges of es have the same (source, target) pair.
distinctPairs(es) ==
  \A i, j \in 1..Len(es) :
    (es[i].source = es[j].source /\ es[i].target = es[j].target) => i = j

C23_SelfLoopsFlagged ==
  /\ \A A \in NodeIds :
       addEdges(Cur, <<MindMapEdge(0, A, A)>>).edges = Append(edges, MindMapEdge(0, A, A))
  /\ \A i \in 1..Len(edges) :
       LET shown == elements(nodes, edges).edges[i]
       IN /\ shown.source = edges[i].source
          /\ shown.target = edges[i].target
          /\ (shown.classes = "circular") <=> (edges[i].source = edges[i].target)

\* addEdges has just added a self-loop, and the store also holds an edge
\* between two different nodes.
C23_Witness ==
  /\ lastCall.op = "addEdges"
  /\ edges # <<>>
  /\ edges[Len(edges)].source = edges[Len(edges)].target
  /\ \E i \in 1..Len(edges) : edges[i].source # edges[i].target
  /\ \E i \in 1..Len(edges) : elements(nodes, edges).edges[i].classes = "circular"

\* The edge e is the one the edge context menu was opened on: the edge with
\* the menu's id when e has an id, the edge with the menu's endpoints otherwise.
matchedByMenu(e, menu) ==
  IF e.id # 0 THEN ToString(e.id) = menu.id
  ELSE e.source = menu.source /\ e.target = menu.target

\* C24: Delete Edge in the edge context menu removes the edges matched by
\* the menu's id when they have an id and by its (source, target) otherwise;
\* Delete / Backspace removes the edges whose endpoint pair is that of a
\* selected edge; both keep every other edge, in order, and every node.
C24_EdgeDeleteFrame ==
  [][/\ lastCall'.op = "handleDeleteEdgeMenu"
          => /\ nodes' = nodes
             /\ edges' = Remaining(edges, {i \in 1..Len(edges) :
                                             ~matchedByMenu(edges[i], lastCall'.args[1])})
     /\ lastCall'.op = "keyDelete"
          => /\ nodes' = nodes
             /\ edges' = Remaining(edges, {i \in 1..Len(edges) :
                            [source |-> edges[i].source, target |-> edges[i].target]
                              \notin lastCall'.args[1]})]_vars

\* Delete was pressed with one of two edges selected: that edge is gone and
\* the other one, which leaves the same node, is still there.
C24_Witness ==
  /\ lastCall.op = "keyDelete"
  /\ Len(lastCall.before.edges) = 2
  /\ lastCall.before.edges[1].source = lastCall.before.edges[2].source
  /\ Len(edges) = 1
  /\ nodes = lastCall.before.nodes

\* C25: renameNode(id, label) gives the label to every node whose id is id and
\* leaves the id and the other fields of those nodes, every other node, the
\* order of the nodes, every edge and the rest of the store as they were; when
\* no node has that id the store is unchanged.
C25_RenameNodeFrame ==
  [][lastCall'.op = "renameNode"
       => LET id == lastCall'.args[1]
              label == lastCall'.args[2]
          IN /\ Len(nodes') = Len(nodes)
             /\ \A i \in 1..Len(nodes) :
                  nodes'[i] = IF nodes[i].id = id
                              THEN [nodes[i] EXCEPT !.label = label]
                              ELSE nodes[i]
             /\ UNCHANGED <<edges, loading, error, selectedMapId, storage>>
             /\ ~found(nodes, id) => UNCHANGED storeVars]_vars

\* renameNode has just relabelled an AI-suggested node that has an edge, next
\* to a node it did not touch.
C25_Witness ==
  /\ lastCall.op = "renameNode"
  /\ \E i \in 1..Len(nodes) :
       /\ nodes[i].id = lastCall.args[1]
       /\ nodes[i].label = lastCall.args[2]
       /\ nodes[i].aiSuggested
       /\ hasEdge(edges, nodes[i].id, "n1")
  /\ \E i \in 1..Len(nodes) : nodes[i].id # lastCall.args[1] /\ nodes[i].label = "A"

\* The operations that edit the working graph.
EditOps == {"addNodes", "addEdges", "renameNode", "deleteNode", "setNodes", "setEdges", "reset"}

\* C26: no graph edit operation (addNodes, addEdges, renameNode, deleteNode,
\* setNodes, setEdges, reset) changes any item of storage, whether the
\* working graph was saved or loaded before or not: every edit step leaves
\* storage as it was, and so does every edit that could be made next.
C26_SavedMapsAreSnapshots ==
  /\ [][lastCall'.op \in EditOps => storage' = storage]_vars
  /\ [](/\ \A newNodes \in NodeLists : addNodes(Cur, newNodes).storage = storage
        /\ \A newEdges \in EdgeLists : addEdges(Cur, newEdges).storage = storage
        /\ \A id \in NodeIds :
             /\ deleteNode(Cur, id).storage = storage
             /\ \A label \in NewLabels : renameNode(Cur, id, label).storage = storage
        /\ setNodes(Cur, SampleNodes).storage = storage
        /\ setEdges(Cur, SampleEdges).storage = storage
        /\ reset(Cur).storage = storage)

\* The working graph was saved under a name or loaded from it and then
\* cleared: the entry still holds the graph as it was before reset().
C26_Witness ==
  /\ lastCall.op = "reset"
  /\ lastCall.before.nodes # <<>>
  /\ nodes = <<>>
  /\ \E x \in SaveNames :
       /\ lastCall.before.selectedMapId = x
       /\ storage[MapKey(x)].kind = "object"
       /\ JSONparse(storage[MapKey(x)]).value.nodes = lastCall.before.nodes
       /\ JSONparse(storage[MapKey(x)]).value.edges = lastCall.before.edges

\* listMaps would return the entry stored as text.
listable(text) ==
  LET p == JSONparse(text)
  IN text # NoItem /\ ~p.threw /\ getAllMaps_accepts(p.value)

\* C29: a second cleanupInvalidMaps() right after a first one leaves storage
\* as the first one left it, whatever order the keys are scanned in, and a
\* cleanupInvalidMaps() neither removes nor alters an entry that listMaps
\* returns nor any key outside the 'mindmaps:' prefix.
C29_CleanupIdempotent ==
  [][lastCall'.op = "cleanupInvalidMaps"
       => /\ \A order \in KeyOrders(storage') :
               cleanupInvalidMaps(Cur', order).storage = storage'
          /\ \A k \in Keys :
               (listable(storage[k]) \/ ~startsWithMindmaps(k)) => storage'[k] = storage[k]
          /\ \A k \in Keys : storage'[k] \in {storage[k], NoItem}]_vars

\* cleanupInvalidMaps has just run: nothing is stored under 'u', an entry that
\* listMaps returns is still there, and so is one that listMaps does not return.
C29_Witness ==
  /\ lastCall.op = "cleanupInvalidMaps"
  /\ storage[MapKey("u")] = NoItem
  /\ \E k \in Keys : startsWithMindmaps(k) /\ listable(storage[k])
  /\ \E k \in Keys : startsWithMindmaps(k) /\ storage[k] # NoItem /\ ~listable(storage[k])

\* Every edge of es has its source and its target among the ids of ns.
endpointsAmong(es, ns) ==
  \A i \in 1..Len(es) :
    /\ \E j \in 1..Len(ns) : ns[j].id = es[i].source
    /\ \E j \in 1..Len(ns) : ns[j].id = es[i].target

\* C27: in every reachable state of the editor, the element list given to
\* the rendering surface and every snapshot that saveMap has written hold
\* only edges whose source and target are ids of nodes of the same list or
\* snapshot.
C27_NoDanglingPersistedOrRendered ==
  /\ surfaceShown =>
       endpointsAmong(elements(nodes, edges).edges, elements(nodes, edges).nodes)
  /\ \A x \in SaveNames :
       storage[MapKey(x)].kind = "object" =>
         endpointsAmong(storage[MapKey(x)].edges, storage[MapKey(x)].nodes)

\* C28: while a suggest-children request issued by the mounted editor for
\* node A is in flight and the graph has another node B, the node menu's
\* AI action can be started (the menu's actions are enabled).
C28_OtherNodeRequestCanStart ==
  \A i \in 1..Len(requests) :
    (/\ requests[i].kind = "suggest"
     /\ requests[i].mounted
     /\ route = "editor"
     /\ Len(requests) < MaxInFlight
     /\ \E B \in NodeIdSet(nodes) : B # requests[i].nodeId)
      => MenuEnabled

\* C30: every edge that a drag-complete, an armed tap or Accept appends to
\* the store's edges has its source and its target among the ids of the
\* store's nodes right after the step.
C30_CommittedEdgesHaveEndpoints ==
  [][lastCall'.op \in {"complete", "tap", "handleAcceptSuggestions"}
       => \A i \in (Len(edges) + 1)..Len(edges') :
            /\ edges'[i].source \in NodeIdSet(nodes')
            /\ edges'[i].target \in NodeIdSet(nodes')]_vars

\* C31: while a generation response (success or failure) is applied, the
\* store after each single set() call of the handler never holds the edges
\* of the previous graph together with a node set that lacks one of their
\* endpoints; the handler ends in the state its last call produces.
C31_BulkReplacementKeepsInvariants ==
  [][lastCall'.op \in {"handleSubmit.then", "handleSubmit.catch"}
       => LET calls == IF lastCall'.op = "handleSubmit.then"
                       THEN handleSubmit_then_calls(Cur, lastCall'.args[1])
                       ELSE handleSubmit_catch_calls(Cur, ApiError)
          IN /\ calls[Len(calls)].nodes = nodes'
             /\ calls[Len(calls)].edges = edges'
             /\ \A k \in 1..Len(calls) :
                  calls[k].edges = edges => endpointsAmong(calls[k].edges, calls[k].nodes)]_vars

\* C32: after renameMap(oldName, newName) on an existing entry, also when
\* newName is oldName, there is an entry under newName that holds the nodes
\* and edges that were stored under oldName.
C32_RenameNeverDestroys ==
  [][(/\ lastCall'.op = "renameMap"
      /\ HoldsObject(storage[MapKey(lastCall'.args[1])]))
       => LET old == JSONparse(storage[MapKey(lastCall'.args[1])]).value
              new == storage'[MapKey(lastCall'.args[2])]
          IN /\ HoldsObject(new)
             /\ JSONparse(new).value.nodes = old.nodes
             /\ JSONparse(new).value.edges = old.edges]_vars

\* C33: after any sequence of saveMap, loadMap, deleteMap, renameMap and
\* cleanupInvalidMaps calls, selectedMapId is null or the name of an entry
\* that exists in storage.
C33_MarkerNamesAnEntry ==
  selectedMapId # Null => storage[MapKey(selectedMapId)] # NoItem

copyBeforeLastCall == lastCall.before.edges

\* C35: when a drag-complete, an armed tap, Delete / Backspace or the edge
\* menu's Delete Edge writes the edge list while holding the copy of the
\* edges it captured before the most recent operation, the result is the
\* store's current edge list with only that handler's edge added or removed.
C35_NoLostUpdates ==
  LET seen == copyBeforeLastCall
      shown == elements(nodes, seen).edges
  IN /\ \A S \in NodeIdSet(nodes), T \in NodeIdSet(nodes) :
          LET new == MindMapEdge(edgeId(S, T, uuids + 1), S, T)
          IN /\ complete(Cur, seen, S, T, uuids + 1).edges \in {edges, Append(edges, new)}
             /\ handler(Cur, seen, S, T, uuids + 1).edges \in {edges, Append(edges, new)}
     /\ \A i \in 1..Len(seen) :
          LET menu == [some |-> TRUE, id |-> shown[i].id,
                       source |-> shown[i].source, target |-> shown[i].target]
              pair == [source |-> shown[i].source, target |-> shown[i].target]
          IN /\ handleDeleteEdgeMenu(Cur, seen, menu).edges =
                  SelectSeq(edges, LAMBDA e : ~matchedByMenu(e, menu))
             /\ keyDelete(Cur, seen, {pair}).edges =
                  SelectSeq(edges, LAMBDA e : ~(e.source = pair.source /\ e.target = pair.target))

\* The node menu of the final editor: it is opened by a right-click, closed
\* by a mousedown elsewhere, by its Delete and Add Edge, and by leaving the page.
NextMenu ==
  \/ Navigate
  \/ HandleSubmit
  \/ GenerateResponds
  \/ OnNodeContext
  \/ MouseDown
  \/ HandleDelete
  \/ OnAddEdge

SpecMenu == Init /\ [][NextMenu]_vars

\* The position overlay of the final editor: surface events, timeouts and
\* the operations that change the graph under it.
NextOverlay ==
  \/ Navigate
  \/ HandleSubmit
  \/ GenerateResponds
  \/ HandleDelete
  \/ CyEvent
  \/ Timeout

SpecOverlay == Init /\ [][NextOverlay]_vars

\* C36: a mousedown listener is on document exactly while menuNode is set,
\* never more than one; a mousedown outside the menu clears menuNode and
\* menuPos, and one inside it changes neither.
C36_OutsideClickListener ==
  /\ [][lastCall'.op = "mousedown"
          => IF lastCall'.args = <<"inside">>
             THEN UNCHANGED <<menuNode, menuPos>>
             ELSE menuNode' = Null /\ menuPos' = Null]_vars
  /\ []((listeners > 0 <=> menuNode # Null) /\ listeners <= 1)

\* A menu was open and a mousedown outside it has closed it.
C36_Witness ==
  /\ lastCall.op = "mousedown"
  /\ lastCall.args = <<"outside">>
  /\ menuNode = Null
  /\ listeners = 0

\* C37: whenever an operation changes the nodes or edges shown by the
\* mounted editor, updatePositions runs once synchronously; and the events of
\* a burst leave one timeout pending, so that updatePositions runs once after
\* the last of them.
C37_DebounceCollapsesBursts ==
  /\ [][(route' = "editor" /\ build = "final" /\ surfaceShown'
           /\ (nodes' # nodes \/ edges' # edges))
          => Len(updatePositions_sync(TRUE)) = 1]_vars
  /\ []((IF timers.current THEN 1 ELSE 0) + timers.orphans <= 1)

====
